---------------------------- MODULE Spec2Model ----------------------------
(***************************************************************************)
(* MedVault consent registry: the smart_contracts and notifications tables *)
(* of the backend, the in-memory contract map of SmartContractService, the *)
(* patient/doctor route handlers that change them, and the field           *)
(* projection of MidnightService.getApprovedFields.                        *)
(*                                                                         *)
(* Spec   : every route handler runs as one atomic step.                   *)
(* SpecC  : handlers run as sequences of steps, one per database call,     *)
(*          and the steps of two in-flight requests interleave.            *)
(***************************************************************************)
EXTENDS Integers, Sequences, FiniteSets, TLC

(***************************************************************************)
(* Bounds of the model.                                                    *)
(***************************************************************************)
MaxContracts == 2        \* rows ever inserted into smart_contracts
MaxNotifications == 2    \* rows ever inserted into notifications

PatientIds == {1, 2}     \* values of patients.id
DoctorIds == {1, 2}      \* values of doctors.id

patient_wallet_address == (1 :> "0xp1") @@ (2 :> "0xp2")
doctor_wallet_address == (1 :> "0xd1") @@ (2 :> "0xd2")

(***************************************************************************)
(* JSON-like values, tagged by kind.                                       *)
(***************************************************************************)
Undefined == [k |-> "undefined"]
Null == [k |-> "null"]
Num(n) == [k |-> "num", v |-> n]
Str(s) == [k |-> "str", v |-> s]
Bool(b) == [k |-> "bool", v |-> b]
List(s) == [k |-> "list", v |-> s, m |-> <<>>]
Obj(m) == [k |-> "obj", m |-> m]
EmptyObj == Obj(<<>>)

\* JavaScript truthiness of a value
Truthy(x) ==
  CASE x.k = "undefined" -> FALSE
    [] x.k = "null" -> FALSE
    [] x.k = "num" -> x.v # 0
    [] x.k = "str" -> x.v # ""
    [] x.k = "bool" -> x.v
    [] OTHER -> TRUE

\* x[key] for a truthy x: own properties of objects, "length" of strings and
\* "length" and named properties of arrays; anything else is undefined
Prop(x, key) ==
  CASE x.k = "obj" -> IF key \in DOMAIN x.m THEN x.m[key] ELSE Undefined
    [] x.k = "list" -> IF key = "length" THEN Num(Len(x.v))
                       ELSE IF key \in DOMAIN x.m THEN x.m[key]
                       ELSE Undefined
    [] x.k = "str" -> IF key = "length" THEN Num(Len(x.v)) ELSE Undefined
    [] OTHER -> Undefined

\* path.split('.') on the dotted paths used in the model
split ==
  ("patientInfo.bloodType" :> <<"patientInfo", "bloodType">>) @@
  ("patientInfo.gender" :> <<"patientInfo", "gender">>) @@
  ("vitals.heartRate" :> <<"vitals", "heartRate">>) @@
  ("vitals.temperature" :> <<"vitals", "temperature">>) @@
  ("billing.ssn" :> <<"billing", "ssn">>) @@
  ("vitals" :> <<"vitals">>) @@
  ("notes" :> <<"notes">>) @@
  ("vitals.length" :> <<"vitals", "length">>) @@
  ("vitals.heartRate.length" :> <<"vitals", "heartRate", "length">>)

RECURSIVE reduceGet(_, _)
reduceGet(current, keys) ==
  IF keys = <<>> THEN current
  ELSE reduceGet(IF Truthy(current) /\ Prop(current, Head(keys)) # Undefined
                    THEN Prop(current, Head(keys)) ELSE Undefined,
                 Tail(keys))

\* getNestedProperty reading the first key of the path only
getNestedProperty_FirstKey(obj, path) ==
  reduceGet(obj, <<Head(split[path])>>)

getNestedProperty(obj, path) == reduceGet(obj, split[path])

\* obj with obj[key] = value (obj is an object)
Assign(obj, key, value) ==
  Obj([x \in DOMAIN obj.m \cup {key} |-> IF x = key THEN value ELSE obj.m[x]])

\* the value of x at a path of keys through objects, Undefined when the
\* path leaves x
RECURSIVE ValueAt(_, _)
ValueAt(x, keys) ==
  IF keys = <<>> THEN x
  ELSE IF x.k = "obj" /\ Head(keys) \in DOMAIN x.m
    THEN ValueAt(x.m[Head(keys)], Tail(keys))
    ELSE Undefined

\* x with the value at a path of keys through objects replaced by value
RECURSIVE WithValueAt(_, _, _)
WithValueAt(x, keys, value) ==
  IF keys = <<>> THEN value
  ELSE Assign(x, Head(keys), WithValueAt(x.m[Head(keys)], Tail(keys), value))

IsPrefix(a, b) == Len(a) <= Len(b) /\ SubSeq(b, 1, Len(a)) = a

\* outcome of a statement: the container it worked on, and whether it threw
Returned(v) == [val |-> v, thrown |-> FALSE]
Threw(v) == [val |-> v, thrown |-> TRUE]

\* ToNumber of a value, -1 for NaN (the strings of the model other than ""
\* are not numerals)
RECURSIVE ToNumber(_)
ToNumber(x) ==
  CASE x.k = "num" -> x.v
    [] x.k = "null" -> 0
    [] x.k = "bool" -> IF x.v THEN 1 ELSE 0
    [] x.k = "str" -> IF x.v = "" THEN 0 ELSE -1
    [] x.k = "list" -> IF Len(x.v) = 0 THEN 0
                       ELSE IF Len(x.v) = 1 /\ x.m = <<>>
                         THEN ToNumber(x.v[1])
                       ELSE -1
    [] OTHER -> -1

\* target[key] = value in strict mode code (a class body): an object takes
\* the property, an array takes a length or a named property, and the
\* assignment to a property of a primitive throws a TypeError
AssignTo(target, key, value) ==
  CASE target.k = "obj" -> Returned(Assign(target, key, value))
    [] target.k = "list" ->
         IF key # "length"
           THEN Returned([target EXCEPT !.m =
                  [x \in DOMAIN target.m \cup {key} |->
                     IF x = key THEN value ELSE target.m[x]]])
         ELSE IF ToNumber(value) < 0 THEN Threw(target)
         ELSE Returned([target EXCEPT !.v =
                [i \in 1..ToNumber(value) |->
                   IF i <= Len(target.v) THEN target.v[i] ELSE Undefined]])
    [] OTHER -> Threw(target)

\* setNestedProperty from current along keys: the reduce replaces a falsy
\* current[key] by {} and descends into current[key]; the last key is
\* assigned the value. The result is current after the walk, with the
\* changes made to the objects it holds, and whether a statement threw.
RECURSIVE setAt(_, _, _)
setAt(current, keys, value) ==
  IF Len(keys) = 1 THEN AssignTo(current, keys[1], value)
  ELSE LET made == IF Truthy(Prop(current, Head(keys)))
                     THEN Returned(current)
                     ELSE AssignTo(current, Head(keys), EmptyObj)
       IN  IF made.thrown THEN made
           ELSE LET sub == setAt(Prop(made.val, Head(keys)), Tail(keys),
                                 value)
                IN  IF sub.val.k \in {"obj", "list"}
                      THEN [val |-> AssignTo(made.val, Head(keys),
                                             sub.val).val,
                            thrown |-> sub.thrown]
                      ELSE [val |-> made.val, thrown |-> sub.thrown]

setNestedProperty(obj, path, value) == setAt(obj, split[path], value)

\* the forEach callback without the test value !== undefined
filterStep_NoSkip(st, fieldPath) ==
  LET res == setNestedProperty(st.filteredRecord, fieldPath,
                               getNestedProperty(st.fullRecord, fieldPath))
  IN  [st EXCEPT !.filteredRecord = res.val, !.thrown = res.thrown]

\* One call of the forEach callback of MidnightService.getApprovedFields.
\* The value set into filteredRecord is the one held by fullRecord, not a
\* copy: shared lists the paths at which filteredRecord holds an object or
\* array of fullRecord itself, so that a walk through such a path works on
\* fullRecord's object. wrote tells that an assignment was made to an
\* object of fullRecord.
filterStep(st, fieldPath) ==
  LET keys == split[fieldPath]
      value == getNestedProperty(st.fullRecord, fieldPath)
      res == setNestedProperty(st.filteredRecord, fieldPath, value)
      inside == { P \in st.shared : IsPrefix(P, keys) /\ P # keys }
      isRef == ~res.thrown /\ value.k \in {"obj", "list"}
  IN  IF value = Undefined THEN st
      ELSE IF inside # {}
        THEN LET P == CHOOSE Q \in inside :
                        \A Q2 \in inside : Len(Q) <= Len(Q2)
             IN  [filteredRecord |-> res.val,
                  fullRecord |-> WithValueAt(st.fullRecord, P,
                                             ValueAt(res.val, P)),
                  shared |-> st.shared \cup (IF isRef THEN {keys} ELSE {}),
                  wrote |-> \/ st.wrote
                            \/ ~res.thrown
                            \/ ValueAt(res.val, P)
                                 # ValueAt(st.filteredRecord, P),
                  thrown |-> res.thrown]
        ELSE [filteredRecord |-> res.val,
              fullRecord |-> st.fullRecord,
              shared |-> { Q \in st.shared : ~IsPrefix(keys, Q) }
                           \cup (IF isRef THEN {keys} ELSE {}),
              wrote |-> st.wrote,
              thrown |-> res.thrown]

\* approvedFields.forEach(...) in array order, left by the first throw
RECURSIVE filterLoop(_, _)
filterLoop(st, approvedFields) ==
  IF approvedFields = <<>> \/ st.thrown THEN st
  ELSE filterLoop(filterStep(st, Head(approvedFields)), Tail(approvedFields))

\* the run of MidnightService.getApprovedFields on a retrieved record, from
\* const filteredRecord = {} to the end of the loop
filterRun(fullRecord, approvedFields) ==
  filterLoop([filteredRecord |-> EmptyObj, fullRecord |-> fullRecord,
              shared |-> {}, wrote |-> FALSE, thrown |-> FALSE],
             approvedFields)

\* the Error thrown by the catch block of MidnightService.getApprovedFields
FailedToGetApprovedFields ==
  [k |-> "error", v |-> "Failed to get approved fields"]

\* MidnightService.getApprovedFields on a retrieved record
MidnightGetApprovedFields(fullRecord, approvedFields) ==
  LET run == filterRun(fullRecord, approvedFields)
  IN  IF run.thrown THEN FailedToGetApprovedFields ELSE run.filteredRecord

(***************************************************************************)
(* JSON text of a value: JSON.stringify wraps, JSON.parse unwraps.         *)
(***************************************************************************)
JSONstringify(x) == [json |-> x]
JSONparse(s) == s.json
NULL == [null |-> TRUE]

\* JSON.parse(contract.approved_fields || '[]')
parseApprovedFields(text) == IF text = NULL THEN <<>> ELSE JSONparse(text)

(***************************************************************************)
(* The field catalog.                                                      *)
(***************************************************************************)
getAvailableMedicalFields ==
  { "patientInfo.name", "patientInfo.dateOfBirth", "patientInfo.gender",
    "patientInfo.bloodType", "patientInfo.allergies",
    "medicalHistory.conditions", "medicalHistory.medications",
    "medicalHistory.surgeries", "medicalHistory.familyHistory",
    "vitals.bloodPressure", "vitals.heartRate", "vitals.temperature",
    "vitals.weight", "vitals.height",
    "labResults.bloodWork", "labResults.imaging", "labResults.pathology",
    "currentTreatment.medications", "currentTreatment.therapies",
    "currentTreatment.followUpInstructions" }

\* validateMedicalFields finding every field valid
validateMedicalFields_None(fields) == <<>>

\* the invalid part of validateMedicalFields(fields)
validateMedicalFields(fields) ==
  SelectSeq(fields, LAMBDA f : f \notin getAvailableMedicalFields)

(***************************************************************************)
(* Inputs of the requests.                                                 *)
(***************************************************************************)
RecordA ==
  Obj(("patientInfo" :> Obj(("dateOfBirth" :> Str("1985-06-15")) @@
                            ("gender" :> Str("Female")) @@
                            ("bloodType" :> Str("A+")))) @@
      ("medicalHistory" :> Obj("conditions" :> List(<<Str("Hypertension")>>))) @@
      ("vitals" :> Obj(("heartRate" :> Num(72)) @@ ("temperature" :> Num(98)))))

RequestedFieldsInputs ==
  { <<>>,
    <<"vitals.heartRate", "patientInfo.bloodType">>,
    <<"vitals.heartRate", "billing.ssn">> }

NotificationIds == 1..MaxNotifications
ActionInputs == {"approve", "deny"}

\* wallet.encrypt / wallet.decrypt of the mock wallet
encrypt(text) == [enc |-> text]
decrypt(data) == data.enc

\* MidnightService.storeMedicalRecord: the text stored for a record
storeMedicalRecord(record) == encrypt(JSONstringify(record))

\* MidnightService.retrieveMedicalRecord on the stored text
retrieveMedicalRecord(stored) == JSONparse(decrypt(stored))

\* The registered users a run starts from: the rows of table patients, each
\* with the record the patient uploaded (patient 2 has uploaded none), and
\* the ids of the rows of table doctors. Registration and upload are outside
\* the registry.
Population ==
  [patients |-> (1 :> storeMedicalRecord(RecordA)) @@
                (2 :> NULL),
   doctors |-> {1}]

(***************************************************************************)
(* State.                                                                  *)
(***************************************************************************)
VARIABLES
  smart_contracts,    \* table smart_contracts: sequence of rows, id = index
  contracts,          \* SmartContractService.contracts: address -> object
  notifications,      \* table notifications: set of rows
  notification_seq,   \* AUTOINCREMENT counter of notifications
  medical_record,     \* per row of patients: the stored record text, or NULL
  doctors,            \* table doctors: the ids of its rows
  inflight,           \* per request slot: the handler in flight and its locals
  started,            \* number of requests started step by step
  probe,              \* a call of the record projection: inputs and outcome
  resp                \* the response of the last finished request

vars == <<smart_contracts, contracts, notifications, notification_seq,
          medical_record, doctors, probe, inflight, started, resp>>

\* ids of the rows of table patients
patients == DOMAIN medical_record

Procs == {1, 2}          \* request slots: requests in flight at the same time

\* a slot with no request in flight
Idle ==
  [pc |-> "idle", user |-> 0, target |-> 0, fields |-> <<>>, action |-> "",
   notification |-> 0, contract |-> 0]

\* no call of the record projection
NoProbe == [op |-> "none"]

NoResponse ==
  [op |-> "none", status |-> 0, error |-> "", data |-> Undefined]

\* res.status(status).json(createErrorResponse(error))
createErrorResponse(op, status, error) ==
  [op |-> op, status |-> status, error |-> error, data |-> Undefined]

\* res.json(createSuccessResponse(data))
createSuccessResponse(op, data) ==
  [op |-> op, status |-> 200, error |-> "", data |-> data]

InitWith(pop) ==
  /\ smart_contracts = <<>>
  /\ contracts = <<>>
  /\ notifications = {}
  /\ notification_seq = 0
  /\ medical_record = pop.patients
  /\ doctors = pop.doctors
  /\ inflight = [proc \in Procs |-> Idle]
  /\ started = 0
  /\ probe = NoProbe
  /\ resp = NoResponse

Init == InitWith(Population)

(***************************************************************************)
(* Queries of SmartContractService and NotificationModel on a table state. *)
(***************************************************************************)
\* the active rows of a patient wallet, whatever the doctor wallet
ActiveIds_AnyDoctor(rows, patientWallet, doctorWallet) ==
  { i \in DOMAIN rows : /\ rows[i].patient_wallet = patientWallet
                        /\ rows[i].status = "active" }

\* ids of the active rows of a pair of wallets
ActiveIds(rows, patientWallet, doctorWallet) ==
  { i \in DOMAIN rows : /\ rows[i].patient_wallet = patientWallet
                        /\ rows[i].doctor_wallet = doctorWallet
                        /\ rows[i].status = "active" }

Min(S) == CHOOSE x \in S : \A y \in S : x <= y

\* findByWallets without the condition status = 'active'
findByWalletsIn_AnyStatus(rows, patientWallet, doctorWallet) ==
  LET ids == { i \in DOMAIN rows : /\ rows[i].patient_wallet = patientWallet
                                    /\ rows[i].doctor_wallet = doctorWallet }
  IN  IF ids = {} THEN 0 ELSE Min(ids)

\* findByWallets with the two wallets taken in the wrong order
findByWalletsIn_Swapped(rows, patientWallet, doctorWallet) ==
  IF ActiveIds(rows, doctorWallet, patientWallet) = {} THEN 0
  ELSE Min(ActiveIds(rows, doctorWallet, patientWallet))

\* SmartContractService.findByWallets: id of the first active row of the
\* pair, 0 for null
findByWalletsIn(rows, patientWallet, doctorWallet) ==
  IF ActiveIds(rows, patientWallet, doctorWallet) = {} THEN 0
  ELSE Min(ActiveIds(rows, patientWallet, doctorWallet))

findByWallets(patientWallet, doctorWallet) ==
  findByWalletsIn(smart_contracts, patientWallet, doctorWallet)

\* getApprovedFields without the condition status = 'active' in its SELECT
getApprovedFieldsIn_AnyStatus(rows, patientWallet, doctorWallet) ==
  IF findByWalletsIn_AnyStatus(rows, patientWallet, doctorWallet) = 0 THEN <<>>
  ELSE parseApprovedFields(
         rows[findByWalletsIn_AnyStatus(rows, patientWallet,
                                        doctorWallet)].approved_fields)

\* SmartContractService.getApprovedFields
getApprovedFieldsIn(rows, patientWallet, doctorWallet) ==
  IF findByWalletsIn(rows, patientWallet, doctorWallet) = 0 THEN <<>>
  ELSE parseApprovedFields(
         rows[findByWalletsIn(rows, patientWallet, doctorWallet)].approved_fields)

getApprovedFields(patientWallet, doctorWallet) ==
  getApprovedFieldsIn(smart_contracts, patientWallet, doctorWallet)

\* NotificationModel.findById: the rows with that id (none or one)
findById(id) == { n \in notifications : n.id = id }

\* NotificationModel.findPendingByDoctorAndPatient: the matching rows
findPendingIn(rows, doctorId, patientId) ==
  { n \in rows : /\ n.doctor_id = doctorId
                 /\ n.patient_id = patientId
                 /\ n.status = "pending" }

findPendingByDoctorAndPatient(doctorId, patientId) ==
  findPendingIn(notifications, doctorId, patientId)

(***************************************************************************)
(* Writes of SmartContractService and NotificationModel.                   *)
(***************************************************************************)
\* new MockSmartContract(...) followed by deploy()
MockSmartContract(patientWallet, doctorWallet, approvedFields) ==
  [patientWallet |-> patientWallet, doctorWallet |-> doctorWallet,
   approvedFields |-> approvedFields, isActive |-> TRUE]

\* createContract inserting the row with status 'pending'
createContractRows_Pending(rows, objs, patientWallet, doctorWallet, approvedFields) ==
  Append(rows, [id |-> Len(rows) + 1,
                patient_wallet |-> patientWallet,
                doctor_wallet |-> doctorWallet,
                contract_address |-> Len(objs) + 1,
                approved_fields |-> JSONstringify(approvedFields),
                status |-> "pending"])

\* SmartContractService.createContract: the table after the INSERT
createContractRows(rows, objs, patientWallet, doctorWallet, approvedFields) ==
  Append(rows, [id |-> Len(rows) + 1,
                patient_wallet |-> patientWallet,
                doctor_wallet |-> doctorWallet,
                contract_address |-> Len(objs) + 1,
                approved_fields |-> JSONstringify(approvedFields),
                status |-> "active"])

\* SmartContractService.createContract: the contract map after contracts.set
createContractObjs(objs, patientWallet, doctorWallet, approvedFields) ==
  Append(objs, MockSmartContract(patientWallet, doctorWallet, approvedFields))

\* updateApprovedFields adding the fields to the stored ones
updateApprovedFieldsRows_Union(rows, contractId, approvedFields) ==
  [rows EXCEPT ![contractId].approved_fields =
     JSONstringify(parseApprovedFields(@) \o approvedFields)]

\* SmartContractService.updateApprovedFields: the table after the UPDATE
updateApprovedFieldsRows(rows, contractId, approvedFields) ==
  [rows EXCEPT ![contractId].approved_fields = JSONstringify(approvedFields)]

\* MockSmartContract.updateApprovedFields on the object of the row, if any
updateApprovedFieldsObjs(rows, objs, contractId, approvedFields) ==
  IF rows[contractId].contract_address \in DOMAIN objs
    THEN [objs EXCEPT ![rows[contractId].contract_address].approvedFields =
                          approvedFields]
    ELSE objs

\* revokeContract without its UPDATE
revokeContractRows_NoUpdate(rows, contractId) == rows

\* SmartContractService.revokeContract: the table after the UPDATE
revokeContractRows(rows, contractId) ==
  [rows EXCEPT ![contractId].status = "revoked"]

\* MockSmartContract.revoke on the object of the row, if any
revokeContractObjs(rows, objs, contractId) ==
  IF rows[contractId].contract_address \in DOMAIN objs
    THEN [objs EXCEPT ![rows[contractId].contract_address] =
            [@ EXCEPT !.isActive = FALSE, !.approvedFields = <<>>]]
    ELSE objs

\* NotificationModel.create: the row inserted
NotificationRow(id, doctorId, patientId, requestedFields) ==
  [id |-> id, doctor_id |-> doctorId, patient_id |-> patientId,
   requested_fields |-> JSONstringify(requestedFields), status |-> "pending"]

\* updateStatus whose UPDATE matches no row
updateStatus_NoWrite(rows, id, status) == rows

\* NotificationModel.updateStatus
updateStatus(rows, id, status) ==
  { IF n.id = id THEN [n EXCEPT !.status = status] ELSE n : n \in rows }

\* deleteById whose DELETE has no WHERE clause
deleteById_All(rows, id) == {}

\* NotificationModel.deleteById
deleteById(rows, id) == { n \in rows : n.id # id }

(***************************************************************************)
(* Spec: the route handlers, each as one atomic step.                      *)
(***************************************************************************)
\* POST /api/patient/connect-doctor
ConnectDoctor(p, d) ==
  LET existingContract ==
        findByWallets(patient_wallet_address[p], doctor_wallet_address[d])
  IN  /\ p \in patients
      /\ d \notin doctors \/ existingContract # 0
            \/ Len(smart_contracts) < MaxContracts
      /\ IF d \notin doctors
           THEN /\ resp' = createErrorResponse("connect-doctor", 404,
                                               "Doctor not found")
                /\ UNCHANGED <<smart_contracts, contracts>>
         ELSE IF existingContract # 0
           THEN /\ resp' = createErrorResponse("connect-doctor", 409,
                             "Connection already exists with this doctor")
                /\ UNCHANGED <<smart_contracts, contracts>>
           ELSE /\ contracts' = createContractObjs(contracts,
                      patient_wallet_address[p], doctor_wallet_address[d], <<>>)
                /\ smart_contracts' = createContractRows(smart_contracts,
                      contracts, patient_wallet_address[p],
                      doctor_wallet_address[d], <<>>)
                /\ resp' = createSuccessResponse("connect-doctor",
                                                 Undefined)
      /\ UNCHANGED <<notifications, notification_seq, medical_record, doctors, probe, inflight,
                 started>>

\* the message of request-access when the pair has no active contract
NoConnection == "No connection exists with this patient"

\* request-access without the check for an active contract
RequestAccessError_NoContractCheck(rows, grants, d, p, requested_fields) ==
  CASE requested_fields = <<>> ->
         "Requested fields must be a non-empty array"
    [] requested_fields # <<>> /\ validateMedicalFields(requested_fields) # <<>> ->
         "Invalid medical fields"
    [] OTHER ->
         IF p \notin patients THEN "Patient not found"
         ELSE IF medical_record[p] = NULL THEN "Patient has no medical record"
         ELSE IF findPendingIn(rows, d, p) # {}
           THEN "A request is already pending for this patient"
         ELSE ""

\* request-access without the check for a pending request
RequestAccessError_NoPendingCheck(rows, grants, d, p, requested_fields) ==
  CASE requested_fields = <<>> ->
         "Requested fields must be a non-empty array"
    [] requested_fields # <<>> /\ validateMedicalFields(requested_fields) # <<>> ->
         "Invalid medical fields"
    [] OTHER ->
         IF p \notin patients THEN "Patient not found"
         ELSE IF medical_record[p] = NULL THEN "Patient has no medical record"
         ELSE IF findByWalletsIn(grants, patient_wallet_address[p],
                                 doctor_wallet_address[d]) = 0
           THEN NoConnection
         ELSE ""

\* the error of POST /api/doctor/request-access, "" when the request passes
\* every check
RequestAccessError(rows, grants, d, p, requested_fields) ==
  CASE requested_fields = <<>> ->
         "Requested fields must be a non-empty array"
    [] requested_fields # <<>> /\ validateMedicalFields(requested_fields) # <<>> ->
         "Invalid medical fields"
    [] OTHER ->
         IF p \notin patients THEN "Patient not found"
         ELSE IF medical_record[p] = NULL THEN "Patient has no medical record"
         ELSE IF findPendingIn(rows, d, p) # {}
           THEN "A request is already pending for this patient"
         ELSE IF findByWalletsIn(grants, patient_wallet_address[p],
                                 doctor_wallet_address[d]) = 0
           THEN NoConnection
         ELSE ""

StatusOf(error) ==
  CASE error = "A request is already pending for this patient" -> 409
    [] error = "Patient not found" -> 404
    [] OTHER -> 400

\* POST /api/doctor/request-access
RequestAccess(d, p, requested_fields) ==
  LET error == RequestAccessError(notifications, smart_contracts, d, p,
                                  requested_fields)
  IN  /\ d \in doctors
      /\ error # "" \/ notification_seq < MaxNotifications
      /\ IF error # ""
           THEN /\ resp' = createErrorResponse("request-access",
                                               StatusOf(error), error)
                /\ UNCHANGED <<notifications, notification_seq>>
           ELSE /\ notification_seq' = notification_seq + 1
                /\ notifications' = notifications \cup
                     {NotificationRow(notification_seq + 1, d, p,
                                      requested_fields)}
                /\ resp' = createSuccessResponse("request-access",
                                                 Num(notification_seq + 1))
      /\ UNCHANGED <<smart_contracts, contracts, medical_record, doctors, probe, inflight,
                 started>>

\* the approve branch setting a revoked contract of the pair back to active
\* when the pair has no active one
ApproveRows_Resurrect(rows, objs, n) ==
  LET pw == patient_wallet_address[n.patient_id]
      dw == doctor_wallet_address[n.doctor_id]
      requestedFields == JSONparse(n.requested_fields)
      existingContract == findByWalletsIn(rows, pw, dw)
      revoked == { i \in DOMAIN rows : /\ rows[i].patient_wallet = pw
                                        /\ rows[i].doctor_wallet = dw
                                        /\ rows[i].status = "revoked" }
  IN  IF existingContract # 0
        THEN updateApprovedFieldsRows(rows, existingContract, requestedFields)
      ELSE IF revoked # {}
        THEN [rows EXCEPT ![Min(revoked)] =
                [@ EXCEPT !.status = "active",
                          !.approved_fields = JSONstringify(requestedFields)]]
      ELSE createContractRows(rows, objs, pw, dw, requestedFields)

\* the grant write of the approve branch of respond: update the active
\* contract of the pair, or create one
ApproveRows(rows, objs, n) ==
  LET pw == patient_wallet_address[n.patient_id]
      dw == doctor_wallet_address[n.doctor_id]
      requestedFields == JSONparse(n.requested_fields)
      existingContract == findByWalletsIn(rows, pw, dw)
  IN  IF existingContract # 0
        THEN updateApprovedFieldsRows(rows, existingContract, requestedFields)
        ELSE createContractRows(rows, objs, pw, dw, requestedFields)

ApproveObjs(rows, objs, n) ==
  LET pw == patient_wallet_address[n.patient_id]
      dw == doctor_wallet_address[n.doctor_id]
      requestedFields == JSONparse(n.requested_fields)
      existingContract == findByWalletsIn(rows, pw, dw)
  IN  IF existingContract # 0
        THEN updateApprovedFieldsObjs(rows, objs, existingContract,
                                      requestedFields)
        ELSE createContractObjs(objs, pw, dw, requestedFields)

\* POST /api/patient/notifications/:id/respond without the check that the
\* notification is the caller's
Respond_NoOwnerCheck(p, id, action) ==
  /\ p \in patients
  /\ IF findById(id) = {}
       THEN /\ resp' = createErrorResponse("respond", 404,
                                           "Notification not found")
            /\ UNCHANGED <<notifications, smart_contracts, contracts>>
       ELSE LET notification == CHOOSE n \in findById(id) : TRUE
            IN  /\ notifications' = updateStatus(notifications, id,
                     IF action = "approve" THEN "approved" ELSE "denied")
                /\ IF action = "approve"
                     THEN /\ Len(ApproveRows(smart_contracts, contracts,
                                   notification)) <= MaxContracts
                          /\ smart_contracts' = ApproveRows(
                               smart_contracts, contracts, notification)
                          /\ contracts' = ApproveObjs(
                               smart_contracts, contracts, notification)
                     ELSE UNCHANGED <<smart_contracts, contracts>>
                /\ resp' = createSuccessResponse("respond", Str(action))
  /\ UNCHANGED <<notification_seq, medical_record, doctors, probe, inflight,
                 started>>

\* POST /api/patient/notifications/:id/respond
Respond(p, id, action) ==
  /\ p \in patients
  /\ IF findById(id) = {}
       THEN /\ resp' = createErrorResponse("respond", 404,
                                           "Notification not found")
            /\ UNCHANGED <<notifications, smart_contracts, contracts>>
       ELSE LET notification == CHOOSE n \in findById(id) : TRUE
            IN  IF notification.patient_id # p
                  THEN /\ resp' = createErrorResponse("respond", 403,
                                                      "Access denied")
                       /\ UNCHANGED <<notifications, smart_contracts, contracts>>
                  ELSE /\ notifications' = updateStatus(notifications, id,
                            IF action = "approve" THEN "approved" ELSE "denied")
                       /\ IF action = "approve"
                            THEN /\ Len(ApproveRows(smart_contracts, contracts,
                                          notification)) <= MaxContracts
                                 /\ smart_contracts' = ApproveRows(
                                      smart_contracts, contracts, notification)
                                 /\ contracts' = ApproveObjs(
                                      smart_contracts, contracts, notification)
                            ELSE UNCHANGED <<smart_contracts, contracts>>
                       /\ resp' = createSuccessResponse("respond",
                                                        Str(action))
  /\ UNCHANGED <<notification_seq, medical_record, doctors, probe, inflight,
                 started>>

\* POST /api/patient/revoke-access/:doctorId
RevokeAccess(p, d) ==
  LET contract ==
        findByWallets(patient_wallet_address[p], doctor_wallet_address[d])
  IN  /\ p \in patients
      /\ IF d \notin doctors
           THEN /\ resp' = createErrorResponse("revoke-access", 404,
                                               "Patient or doctor not found")
                /\ UNCHANGED <<smart_contracts, contracts>>
         ELSE IF contract = 0
           THEN /\ resp' = createErrorResponse("revoke-access", 404,
                                               "No active contract found")
                /\ UNCHANGED <<smart_contracts, contracts>>
           ELSE /\ contracts' = revokeContractObjs(smart_contracts, contracts,
                                                  contract)
                /\ smart_contracts' = revokeContractRows(smart_contracts,
                                                         contract)
                /\ resp' = createSuccessResponse("revoke-access",
                                                 Undefined)
      /\ UNCHANGED <<notifications, notification_seq, medical_record, doctors, probe, inflight,
                 started>>

\* DELETE /api/doctor/requests/:id
CancelRequest(d, id) ==
  /\ d \in doctors
  /\ IF findById(id) = {}
       THEN /\ resp' = createErrorResponse("cancel", 404,
                                           "Request not found")
            /\ UNCHANGED notifications
       ELSE LET notification == CHOOSE n \in findById(id) : TRUE
            IN  IF notification.doctor_id # d
                  THEN /\ resp' = createErrorResponse("cancel", 403,
                                                      "Access denied")
                       /\ UNCHANGED notifications
                ELSE IF notification.status # "pending"
                  THEN /\ resp' = createErrorResponse("cancel", 400,
                                     "Can only cancel pending requests")
                       /\ UNCHANGED notifications
                ELSE /\ notifications' = deleteById(notifications, id)
                     /\ resp' = createSuccessResponse("cancel", Undefined)
  /\ UNCHANGED <<smart_contracts, contracts, notification_seq, medical_record, doctors, probe, inflight,
                 started>>

\* the response of GET /api/doctor/patient/:id/medical-data on a table state
MedicalDataResponse(rows, d, p) ==
  LET contract == findByWalletsIn(rows, patient_wallet_address[p],
                                  doctor_wallet_address[d])
  IN  IF p \notin patients
        THEN createErrorResponse("medical-data", 404, "Patient not found")
      ELSE IF medical_record[p] = NULL
        THEN createErrorResponse("medical-data", 404,
                                 "Patient has no medical record uploaded")
      ELSE IF contract = 0
        THEN createErrorResponse("medical-data", 403,
                                 "No active access to this patient")
      ELSE IF parseApprovedFields(rows[contract].approved_fields) = <<>>
        THEN createErrorResponse("medical-data", 403,
                                 "No approved fields for this patient")
      ELSE LET approvedData ==
                 MidnightGetApprovedFields(
                   retrieveMedicalRecord(medical_record[p]),
                   parseApprovedFields(rows[contract].approved_fields))
           IN  IF approvedData = FailedToGetApprovedFields
                 THEN createErrorResponse("medical-data", 500,
                                          "Failed to get patient medical data")
                 ELSE createSuccessResponse("medical-data", approvedData)

\* GET /api/doctor/patient/:id/medical-data
GetMedicalData(d, p) ==
  /\ d \in doctors
  /\ resp' = MedicalDataResponse(smart_contracts, d, p)
  /\ UNCHANGED <<smart_contracts, contracts, notifications, notification_seq,
                 medical_record, doctors, probe, inflight,
                 started>>

\* one request, handled atomically, its field list drawn from Fields
NextWith(Fields) ==
  \/ \E p \in PatientIds, d \in DoctorIds : ConnectDoctor(p, d)
  \/ \E d \in DoctorIds, p \in PatientIds, f \in Fields :
       RequestAccess(d, p, f)
  \/ \E p \in PatientIds, id \in NotificationIds, action \in ActionInputs :
       Respond(p, id, action)
  \/ \E p \in PatientIds, d \in DoctorIds : RevokeAccess(p, d)
  \/ \E d \in DoctorIds, id \in NotificationIds : CancelRequest(d, id)
  \/ \E d \in DoctorIds, p \in PatientIds : GetMedicalData(d, p)

Next == NextWith(RequestedFieldsInputs)

Spec == Init /\ [][Next]_vars

\* the field lists of RequestedFieldsInputs that pass validation
ValidFieldsInputs == { <<"vitals.heartRate", "patientInfo.bloodType">> }

\* SpecPairs: the same handlers on a population with two doctors, so that
\* one record holder has two pairs.
PopulationPairs ==
  [patients |-> (1 :> storeMedicalRecord(RecordA)), doctors |-> {1, 2}]

InitPairs == InitWith(PopulationPairs)

NextPairs == NextWith(ValidFieldsInputs)

SpecPairs == InitPairs /\ [][NextPairs]_vars

\* SpecRequests: the handlers that write a table, on the population with
\* two doctors. The read of medical data writes no table and no handler
\* reads the last response, so the tables reached are those of SpecPairs.
NextRequests ==
  \/ \E p \in PatientIds, d \in DoctorIds : ConnectDoctor(p, d)
  \/ \E d \in DoctorIds, p \in PatientIds, f \in ValidFieldsInputs :
       RequestAccess(d, p, f)
  \/ \E p \in PatientIds, id \in NotificationIds, action \in ActionInputs :
       Respond(p, id, action)
  \/ \E p \in PatientIds, d \in DoctorIds : RevokeAccess(p, d)
  \/ \E d \in DoctorIds, id \in NotificationIds : CancelRequest(d, id)

SpecRequests == InitPairs /\ [][NextRequests]_vars

\* SpecFields: the same handlers for one patient and one doctor, with
\* requests for two different valid field lists.
PopulationOne ==
  [patients |-> (1 :> storeMedicalRecord(RecordA)), doctors |-> {1}]

TwoFieldsInputs ==
  { <<"vitals.heartRate", "patientInfo.bloodType">>, <<"vitals.temperature">> }

InitFields == InitWith(PopulationOne)

NextFields == NextWith(TwoFieldsInputs)

SpecFields == InitFields /\ [][NextFields]_vars

(***************************************************************************)
(* SpecC: the handlers step by step. A handler runs from one await of a    *)
(* database call to the next without interruption; between two awaits the  *)
(* statements of the other request in flight may run. A statement that     *)
(* writes may fail (Database.run rejects), which the handler's catch turns *)
(* into a 500. The requests are those of patient 1 and doctor 1.           *)
(***************************************************************************)
MaxRequests == 5         \* requests started in a run of SpecC

\* the request of slot proc moves to position pc with locals l
Await(proc, l) == inflight' = [inflight EXCEPT ![proc] = l]

\* the request of slot proc ends with response r
Return(proc, r) ==
  /\ inflight' = [inflight EXCEPT ![proc] = Idle]
  /\ resp' = r

\* a request arrives on the free slot proc
Arrives(proc) ==
  /\ inflight[proc].pc = "idle"
  /\ started < MaxRequests
  /\ started' = started + 1

\* connect-doctor up to the result of findByWallets
ConnectFind(proc) ==
  /\ Arrives(proc)
  /\ IF findByWallets(patient_wallet_address[1], doctor_wallet_address[1]) # 0
       THEN Return(proc, createErrorResponse("connect-doctor", 409,
                           "Connection already exists with this doctor"))
       ELSE /\ Await(proc, [Idle EXCEPT !.pc = "connect.create", !.user = 1,
                                        !.target = 1])
            /\ UNCHANGED resp
  /\ UNCHANGED <<smart_contracts, contracts, notifications, notification_seq,
                 medical_record, doctors, probe>>

\* connect-doctor: createContract(patient, doctor, [])
ConnectCreate(proc, fault) ==
  /\ inflight[proc].pc = "connect.create"
  /\ Len(smart_contracts) < MaxContracts
  /\ contracts' = createContractObjs(contracts, patient_wallet_address[1],
                                     doctor_wallet_address[1], <<>>)
  /\ IF fault
       THEN /\ UNCHANGED smart_contracts
            /\ Return(proc, createErrorResponse("connect-doctor", 500,
                                                "Failed to create connection"))
       ELSE /\ smart_contracts' = createContractRows(smart_contracts,
                 contracts, patient_wallet_address[1],
                 doctor_wallet_address[1], <<>>)
            /\ Return(proc, createSuccessResponse("connect-doctor", Undefined))
  /\ UNCHANGED <<notifications, notification_seq, medical_record, doctors, probe,
                 started>>

\* request-access up to the result of findPendingByDoctorAndPatient; the
\* field lists of SpecC pass validation and patient 1 has a record
RequestPending(proc, requested_fields) ==
  /\ Arrives(proc)
  /\ IF findPendingByDoctorAndPatient(1, 1) # {}
       THEN Return(proc, createErrorResponse("request-access", 409,
                           "A request is already pending for this patient"))
       ELSE /\ Await(proc, [Idle EXCEPT !.pc = "request.contract", !.user = 1,
                                        !.target = 1,
                                        !.fields = requested_fields])
            /\ UNCHANGED resp
  /\ UNCHANGED <<smart_contracts, contracts, notifications, notification_seq,
                 medical_record, doctors, probe>>

\* request-access: the result of findByWallets
RequestContract(proc) ==
  /\ inflight[proc].pc = "request.contract"
  /\ IF findByWallets(patient_wallet_address[1], doctor_wallet_address[1]) = 0
       THEN Return(proc, createErrorResponse("request-access", 400,
                                             NoConnection))
       ELSE /\ Await(proc, [inflight[proc] EXCEPT !.pc = "request.create"])
            /\ UNCHANGED resp
  /\ UNCHANGED <<smart_contracts, contracts, notifications, notification_seq,
                 medical_record, doctors, probe, started>>

\* request-access: NotificationModel.create
RequestCreate(proc, fault) ==
  /\ inflight[proc].pc = "request.create"
  /\ notification_seq < MaxNotifications
  /\ IF fault
       THEN /\ UNCHANGED <<notifications, notification_seq>>
            /\ Return(proc, createErrorResponse("request-access", 500,
                              "Failed to request patient access"))
       ELSE /\ notification_seq' = notification_seq + 1
            /\ notifications' = notifications \cup
                 {NotificationRow(notification_seq + 1, 1, 1,
                                  inflight[proc].fields)}
            /\ Return(proc, createSuccessResponse("request-access",
                                                  Num(notification_seq + 1)))
  /\ UNCHANGED <<smart_contracts, contracts, medical_record, doctors, probe, started>>

\* respond up to the result of NotificationModel.findById
RespondFind(proc, id, action) ==
  /\ Arrives(proc)
  /\ IF findById(id) = {}
       THEN Return(proc, createErrorResponse("respond", 404,
                                             "Notification not found"))
       ELSE LET notification == CHOOSE n \in findById(id) : TRUE
            IN  /\ Await(proc, [Idle EXCEPT
                          !.pc = "respond.status",
                          !.user = notification.patient_id,
                          !.target = notification.doctor_id,
                          !.notification = id,
                          !.action = action,
                          !.fields = JSONparse(notification.requested_fields)])
                /\ UNCHANGED resp
  /\ UNCHANGED <<smart_contracts, contracts, notifications, notification_seq,
                 medical_record, doctors, probe>>

\* respond: NotificationModel.updateStatus; a deny ends here
RespondStatus(proc, fault) ==
  LET l == inflight[proc]
  IN  /\ l.pc = "respond.status"
      /\ IF fault
           THEN /\ UNCHANGED notifications
                /\ Return(proc, createErrorResponse("respond", 500,
                                  "Failed to respond to notification"))
           ELSE /\ notifications' = updateStatus(notifications, l.notification,
                     IF l.action = "approve" THEN "approved" ELSE "denied")
                /\ IF l.action = "approve"
                     THEN /\ Await(proc, [l EXCEPT !.pc = "respond.contract"])
                          /\ UNCHANGED resp
                     ELSE Return(proc, createSuccessResponse("respond",
                                                             Str(l.action)))
      /\ UNCHANGED <<smart_contracts, contracts, notification_seq,
                     medical_record, doctors, probe, started>>

\* respond, approve branch: the result of findByWallets
RespondContract(proc) ==
  LET l == inflight[proc]
  IN  /\ l.pc = "respond.contract"
      /\ Await(proc, [l EXCEPT !.pc = "respond.grant",
                               !.contract = findByWallets(
                                  patient_wallet_address[l.user],
                                  doctor_wallet_address[l.target])])
      /\ UNCHANGED <<smart_contracts, contracts, notifications,
                     notification_seq, medical_record, doctors, probe, started, resp>>

\* respond, approve branch: updateApprovedFields on the contract found, or
\* createContract when none was found
RespondGrant(proc, fault) ==
  LET l == inflight[proc]
      patientWallet == patient_wallet_address[l.user]
      doctorWallet == doctor_wallet_address[l.target]
  IN  /\ l.pc = "respond.grant"
      /\ l.contract # 0 \/ Len(smart_contracts) < MaxContracts
      /\ contracts' =
           IF l.contract # 0
             THEN updateApprovedFieldsObjs(smart_contracts, contracts,
                                           l.contract, l.fields)
             ELSE createContractObjs(contracts, patientWallet, doctorWallet,
                                     l.fields)
      /\ IF fault
           THEN /\ UNCHANGED smart_contracts
                /\ Return(proc, createErrorResponse("respond", 500,
                                  "Failed to respond to notification"))
           ELSE /\ smart_contracts' =
                     IF l.contract # 0
                       THEN updateApprovedFieldsRows(smart_contracts,
                                                     l.contract, l.fields)
                       ELSE createContractRows(smart_contracts, contracts,
                              patientWallet, doctorWallet, l.fields)
                /\ Return(proc, createSuccessResponse("respond",
                                                      Str(l.action)))
      /\ UNCHANGED <<notifications, notification_seq, medical_record, doctors, probe,
                     started>>

\* revoke-access up to the result of findByWallets
RevokeFind(proc) ==
  LET contract ==
        findByWallets(patient_wallet_address[1], doctor_wallet_address[1])
  IN  /\ Arrives(proc)
      /\ IF contract = 0
           THEN Return(proc, createErrorResponse("revoke-access", 404,
                                                 "No active contract found"))
           ELSE /\ Await(proc, [Idle EXCEPT !.pc = "revoke.update",
                                            !.user = 1, !.target = 1,
                                            !.contract = contract])
                /\ UNCHANGED resp
      /\ UNCHANGED <<smart_contracts, contracts, notifications,
                     notification_seq, medical_record, doctors, probe>>

\* revoke-access: revokeContract on the contract found
RevokeUpdate(proc, fault) ==
  LET l == inflight[proc]
  IN  /\ l.pc = "revoke.update"
      /\ contracts' = revokeContractObjs(smart_contracts, contracts,
                                         l.contract)
      /\ IF fault
           THEN /\ UNCHANGED smart_contracts
                /\ Return(proc, createErrorResponse("revoke-access", 500,
                                  "Failed to revoke doctor access"))
           ELSE /\ smart_contracts' = revokeContractRows(smart_contracts,
                                                         l.contract)
                /\ Return(proc, createSuccessResponse("revoke-access",
                                                      Undefined))
      /\ UNCHANGED <<notifications, notification_seq, medical_record, doctors, probe,
                     started>>

\* cancel up to the result of NotificationModel.findById
CancelFind(proc, id) ==
  /\ Arrives(proc)
  /\ IF findById(id) = {}
       THEN Return(proc, createErrorResponse("cancel", 404,
                                             "Request not found"))
     ELSE IF (CHOOSE n \in findById(id) : TRUE).status # "pending"
       THEN Return(proc, createErrorResponse("cancel", 400,
                           "Can only cancel pending requests"))
     ELSE /\ Await(proc, [Idle EXCEPT !.pc = "cancel.delete", !.user = 1,
                                      !.notification = id])
          /\ UNCHANGED resp
  /\ UNCHANGED <<smart_contracts, contracts, notifications, notification_seq,
                 medical_record, doctors, probe>>

\* cancel: NotificationModel.deleteById
CancelDelete(proc, fault) ==
  LET l == inflight[proc]
  IN  /\ l.pc = "cancel.delete"
      /\ IF fault
           THEN /\ UNCHANGED notifications
                /\ Return(proc, createErrorResponse("cancel", 500,
                                                    "Failed to cancel request"))
           ELSE /\ notifications' = deleteById(notifications, l.notification)
                /\ Return(proc, createSuccessResponse("cancel", Undefined))
      /\ UNCHANGED <<smart_contracts, contracts, notification_seq,
                     medical_record, doctors, probe, started>>

NextC ==
  \/ \E proc \in Procs : ConnectFind(proc)
  \/ \E proc \in Procs, fault \in BOOLEAN : ConnectCreate(proc, fault)
  \/ \E proc \in Procs, f \in TwoFieldsInputs : RequestPending(proc, f)
  \/ \E proc \in Procs : RequestContract(proc)
  \/ \E proc \in Procs, fault \in BOOLEAN : RequestCreate(proc, fault)
  \/ \E proc \in Procs, id \in NotificationIds, action \in ActionInputs :
       RespondFind(proc, id, action)
  \/ \E proc \in Procs, fault \in BOOLEAN : RespondStatus(proc, fault)
  \/ \E proc \in Procs : RespondContract(proc)
  \/ \E proc \in Procs, fault \in BOOLEAN : RespondGrant(proc, fault)
  \/ \E proc \in Procs : RevokeFind(proc)
  \/ \E proc \in Procs, fault \in BOOLEAN : RevokeUpdate(proc, fault)
  \/ \E proc \in Procs, id \in NotificationIds : CancelFind(proc, id)
  \/ \E proc \in Procs, fault \in BOOLEAN : CancelDelete(proc, fault)

InitC == InitWith(PopulationOne)

SpecC == InitC /\ [][NextC]_vars

(***************************************************************************)
(* SpecProject: one call of the record projection, or of the read of one   *)
(* path, on a record and a list of paths drawn from bounded sets.          *)
(***************************************************************************)
MaxFields == 2           \* paths in a list given to the projection

\* values of a parsed record that are not objects: falsy and truthy numbers
\* and strings, false, null and an array
ProbeScalars ==
  { Num(0), Num(72), Str(""), Str("A+"), Bool(FALSE), Null,
    List(<<Num(1)>>) }

ProbeVitals ==
  ProbeScalars \cup {EmptyObj}
    \cup { Obj("heartRate" :> v) : v \in ProbeScalars }

\* parsed records of depth up to two
ProbeRecords ==
  {EmptyObj, Obj("notes" :> Str("A+"))}
    \cup { Obj("vitals" :> v) : v \in ProbeVitals }
    \cup { Obj(("vitals" :> v) @@ ("notes" :> Str("A+"))) : v \in ProbeVitals }

\* dotted paths: a path, its extensions, and a path through "length"
ProbePaths ==
  { "vitals", "vitals.heartRate", "vitals.length", "vitals.heartRate.length",
    "notes" }

ProbeFieldLists == UNION { [1..n -> ProbePaths] : n \in 0..MaxFields }

InitProject ==
  /\ smart_contracts = <<>>
  /\ contracts = <<>>
  /\ notifications = {}
  /\ notification_seq = 0
  /\ medical_record = PopulationOne.patients
  /\ doctors = PopulationOne.doctors
  /\ inflight = [proc \in Procs |-> Idle]
  /\ started = 0
  /\ resp = NoResponse
  /\ probe \in { [op |-> "input", fullRecord |-> R, approvedFields |-> S] :
                   R \in ProbeRecords, S \in ProbeFieldLists }

\* the body of MidnightService.getApprovedFields past retrieveMedicalRecord
ProjectRecord ==
  /\ probe.op = "input"
  /\ probe' = [op |-> "project",
               fullRecord |-> probe.fullRecord,
               approvedFields |-> probe.approvedFields,
               run |-> filterRun(probe.fullRecord, probe.approvedFields),
               result |-> MidnightGetApprovedFields(probe.fullRecord,
                                                    probe.approvedFields)]
  /\ UNCHANGED <<smart_contracts, contracts, notifications, notification_seq,
                 medical_record, doctors, inflight, started, resp>>

\* MidnightService.getNestedProperty(fullRecord, path)
GetProperty(path) ==
  /\ probe.op = "input"
  /\ probe' = [op |-> "get",
               fullRecord |-> probe.fullRecord,
               path |-> path,
               value |-> getNestedProperty(probe.fullRecord, path)]
  /\ UNCHANGED <<smart_contracts, contracts, notifications, notification_seq,
                 medical_record, doctors, inflight, started, resp>>

NextProject ==
  \/ ProjectRecord
  \/ \E path \in ProbePaths : GetProperty(path)

SpecProject == InitProject /\ [][NextProject]_vars

(***************************************************************************)
(* Vocabulary of the properties.                                           *)
(***************************************************************************)
pw(p) == patient_wallet_address[p]
dw(d) == doctor_wallet_address[d]

\* ids of the rows of the pair, by status
GrantIds(rows, p, d, status) ==
  { i \in DOMAIN rows : /\ rows[i].patient_wallet = pw(p)
                        /\ rows[i].doctor_wallet = dw(d)
                        /\ rows[i].status = status }

\* the pair has been revoked and no grant was created for it since
RevokedPair(rows, p, d) ==
  /\ GrantIds(rows, p, d, "revoked") # {}
  /\ GrantIds(rows, p, d, "active") = {}

\* requests of the pair, by status
RequestsOf(rows, p, d, status) ==
  { n \in rows : n.patient_id = p /\ n.doctor_id = d /\ n.status = status }

Range(seq) == { seq[i] : i \in DOMAIN seq }

\* paths (sequences of keys) of the values of x that are not objects
RECURSIVE LeafPaths(_)
LeafPaths(x) ==
  IF x.k # "obj" THEN { <<>> }
  ELSE UNION { { <<key>> \o rest : rest \in LeafPaths(x.m[key]) } :
               key \in DOMAIN x.m }

\* C1: each (holder, requester) pair has at most one grant with status
\* active, in every state reached by atomically executed operations.
C1_AtMostOneActiveGrant ==
  \A p \in PatientIds, d \in DoctorIds :
    Cardinality(GrantIds(smart_contracts, p, d, "active")) <= 1

\* a pair was revoked and connected again: one revoked and one active grant
C1_Witness ==
  \E p \in PatientIds, d \in DoctorIds :
    /\ GrantIds(smart_contracts, p, d, "revoked") # {}
    /\ Cardinality(GrantIds(smart_contracts, p, d, "active")) = 1

\* C2: each (holder, requester) pair has at most one request with status
\* pending, in every state reached by atomically executed operations.
C2_AtMostOnePending ==
  \A p \in PatientIds, d \in DoctorIds :
    Cardinality(RequestsOf(notifications, p, d, "pending")) <= 1

\* a second request of a pair is pending after its first one was resolved
C2_Witness ==
  \E p \in PatientIds, d \in DoctorIds :
    /\ Cardinality(RequestsOf(notifications, p, d, "pending")) = 1
    /\ RequestsOf(notifications, p, d, "approved")
         \cup RequestsOf(notifications, p, d, "denied") # {}

\* what a read of the record of p by d may return, given the rows and the
\* response: data only under an active grant of exactly that pair with a
\* non-empty field list, and then only values of the record at approved paths
ReadWithinGrant(rows, d, p, response) ==
  LET active == GrantIds(rows, p, d, "active")
      approved == UNION { Range(parseApprovedFields(rows[i].approved_fields)) :
                          i \in active }
  IN  IF active = {} \/ approved = {} \/ p \notin patients
        THEN response.status # 200 /\ response.data = Undefined
        ELSE response.status = 200 =>
               /\ response.data.k = "obj"
               /\ \A leaf \in LeafPaths(response.data) :
                    /\ \E f \in approved : IsPrefix(split[f], leaf)
                    /\ ValueAt(response.data, leaf) =
                         ValueAt(retrieveMedicalRecord(medical_record[p]), leaf)

\* C3: a read of the record of holder p by requester d returns only values at
\* paths approved in the active grant of exactly the pair (p, d) as stored at
\* the time of the read; without an active grant of the pair, or with an empty
\* approved field list, it returns no record data.
C3_ReadOnlyApprovedFields ==
  \A d \in doctors, p \in PatientIds :
    ReadWithinGrant(smart_contracts, d, p,
                    MedicalDataResponse(smart_contracts, d, p))

\* a read has returned the heart rate and blood type of the record and
\* nothing else, under a grant approving exactly those two paths
C3_Witness ==
  /\ resp.op = "medical-data"
  /\ resp.status = 200
  /\ LeafPaths(resp.data) =
       { <<"vitals", "heartRate">>, <<"patientInfo", "bloodType">> }
  /\ ValueAt(resp.data, <<"vitals", "heartRate">>) = Num(72)
  /\ getApprovedFields(pw(1), dw(1)) =
       <<"vitals.heartRate", "patientInfo.bloodType">>

\* the pair has no access: no approved fields and reads are rejected
NoAccess(rows, p, d) ==
  /\ getApprovedFieldsIn(rows, pw(p), dw(d)) = <<>>
  /\ MedicalDataResponse(rows, d, p).status # 200

\* C4: after revoke-access of (p, d) succeeds, and until a new grant is
\* created for the pair, getApprovedFields(p, d) is empty and every read of
\* the record of p by d is rejected.
C4_NoAccessAfterRevoke ==
  [][\A p \in patients, d \in doctors :
       /\ (RevokeAccess(p, d) /\ resp'.status = 200)
            => NoAccess(smart_contracts', p, d)
       /\ (RevokedPair(smart_contracts, p, d)
             /\ Len(smart_contracts') = Len(smart_contracts))
            => /\ NoAccess(smart_contracts', p, d)
               /\ GetMedicalData(d, p) =>
                    resp'.status \in {403, 404} /\ resp'.data = Undefined]_vars

\* a read was rejected after the revocation of a grant that had approved
\* fields, no grant having been created for the pair since
C4_Witness ==
  /\ resp.op = "medical-data"
  /\ resp.error = "No active access to this patient"
  /\ RevokedPair(smart_contracts, 1, 1)
  /\ \E i \in GrantIds(smart_contracts, 1, 1, "revoked") :
       parseApprovedFields(smart_contracts[i].approved_fields) # <<>>

\* C5 as stated, read for the field lists that pass validation and a patient
\* with a record: after revoke-access of (p, d) succeeds and before a new
\* grant is created, request-access by d on p fails with the no-connection
\* error whatever requests exist for the pair.
C5_AlwaysNoConnection ==
  \A p \in patients, d \in doctors, F \in ValidFieldsInputs :
    (RevokedPair(smart_contracts, p, d) /\ medical_record[p] # NULL) =>
      RequestAccessError(notifications, smart_contracts, d, p, F) = NoConnection

\* C5, amended: after revoke-access of (p, d) succeeds and before a new grant
\* is created, request-access by d on p fails and creates no request; its
\* error is the no-connection error when the field list is non-empty and
\* within the catalog, the patient has a record and no pending request of the
\* pair exists, and the error of the earlier failing check otherwise.
C5_RequestAfterRevokeFails ==
  /\ [](\A p \in patients, d \in doctors, F \in RequestedFieldsInputs :
         RevokedPair(smart_contracts, p, d) =>
           LET error == RequestAccessError(notifications, smart_contracts,
                                           d, p, F)
           IN  /\ error # ""
               /\ error = NoConnection <=>
                    /\ F # <<>>
                    /\ Range(F) \subseteq getAvailableMedicalFields
                    /\ medical_record[p] # NULL
                    /\ RequestsOf(notifications, p, d, "pending") = {})
  /\ [][\A p \in patients, d \in doctors, F \in RequestedFieldsInputs :
          (RevokedPair(smart_contracts, p, d) /\ RequestAccess(d, p, F))
            => /\ resp'.status # 200
               /\ notifications' = notifications
               /\ notification_seq' = notification_seq]_vars

\* a request for access was refused for want of a connection after the
\* revocation of the grant of the pair
C5_Witness ==
  /\ resp.op = "request-access"
  /\ resp.error = NoConnection
  /\ RevokedPair(smart_contracts, 1, 1)
  /\ RequestsOf(notifications, 1, 1, "pending") = {}

\* C6: after respond(approve) on a request of doctor r succeeds for patient
\* h, an active grant of (h, r) exists and getApprovedFields(h, r) is exactly
\* the requested fields of that request: fields approved before and not
\* requested now are gone.
C6_ApproveReplacesFields ==
  [][\A p \in patients, id \in NotificationIds :
       (Respond(p, id, "approve") /\ resp'.status = 200) =>
         \E n \in findById(id) :
           /\ n.patient_id = p
           /\ GrantIds(smart_contracts', p, n.doctor_id, "active") # {}
           /\ getApprovedFieldsIn(smart_contracts', pw(p), dw(n.doctor_id)) =
                JSONparse(n.requested_fields)
           /\ MedicalDataResponse(smart_contracts', n.doctor_id, p).data =
                MidnightGetApprovedFields(
                  retrieveMedicalRecord(medical_record[p]),
                  JSONparse(n.requested_fields))]_vars

\* two requests of the pair with different fields were approved one after
\* the other, and the approved fields are those of the second alone
C6_Witness ==
  /\ resp.op = "respond"
  /\ resp.data = Str("approve")
  /\ \E n1, n2 \in RequestsOf(notifications, 1, 1, "approved") :
       /\ n1.id < n2.id
       /\ JSONparse(n1.requested_fields) =
            <<"vitals.heartRate", "patientInfo.bloodType">>
       /\ JSONparse(n2.requested_fields) = <<"vitals.temperature">>
  /\ getApprovedFields(pw(1), dw(1)) = <<"vitals.temperature">>
  /\ Len(smart_contracts) = 1

\* C7: respond on a request that is already approved or denied fails and
\* leaves the status of the request and the grant of the pair unchanged.
C7_ResolvedExactlyOnce ==
  [][\A p \in patients, id \in NotificationIds, action \in ActionInputs :
       (/\ Respond(p, id, action)
        /\ \E n \in findById(id) : n.patient_id = p /\ n.status # "pending")
         => /\ resp'.status # 200
            /\ notifications' = notifications
            /\ smart_contracts' = smart_contracts]_vars

\* C8: two request-access calls of the same pair whose steps interleave
\* never both succeed: no pair has two pending requests, also when the
\* requests are handled step by step.
C8_AtMostOnePendingInterleaved ==
  \A p \in patients, d \in doctors :
    \A n1, n2 \in RequestsOf(notifications, p, d, "pending") : n1.id = n2.id

\* C9: grant-creating requests of the same pair whose steps interleave (two
\* connect-doctor, or connect-doctor and an approving respond) never leave
\* two active grants of the pair.
C9_AtMostOneActiveInterleaved ==
  \A p \in patients, d \in doctors :
    \A i, j \in GrantIds(smart_contracts, p, d, "active") : i = j

\* slot proc holds a respond(approve) that has run its updateStatus and
\* returns in this step
RespondApproveReturns(proc) ==
  /\ inflight[proc].pc \in {"respond.contract", "respond.grant"}
  /\ inflight'[proc].pc = "idle"

\* C10: when respond(approve) returns, with success or with an error, the
\* request is not approved without the approved fields of the pair being
\* its requested fields, and the grant was not written by a respond whose
\* request is not approved.
C10_NoPartialApprove ==
  [][\A proc \in Procs :
       RespondApproveReturns(proc) =>
         LET l == inflight[proc]
             approved == \E n \in notifications' :
                           n.id = l.notification /\ n.status = "approved"
         IN  /\ approved =>
                  getApprovedFieldsIn(smart_contracts', pw(l.user),
                                      dw(l.target)) = l.fields
             /\ resp'.status = 200 => approved]_vars

\* C11: revoke-access on an active grant sets the status of that grant to
\* revoked and clears its stored approved fields.
C11_RevokeClearsStoredFields ==
  [][\A p \in patients, d \in doctors :
       (RevokeAccess(p, d) /\ resp'.status = 200) =>
         LET contract == findByWallets(pw(p), dw(d))
         IN  /\ smart_contracts'[contract].status = "revoked"
             /\ parseApprovedFields(
                  smart_contracts'[contract].approved_fields) = <<>>]_vars

\* C12: a revoked grant stays in the table and stays revoked, and a pair
\* without an active grant gets one only as a newly inserted row.
C12_RevokedIsTerminal ==
  [][/\ \A i \in DOMAIN smart_contracts :
          smart_contracts[i].status = "revoked" =>
            /\ i \in DOMAIN smart_contracts'
            /\ smart_contracts'[i].status = "revoked"
            /\ smart_contracts'[i].patient_wallet =
                 smart_contracts[i].patient_wallet
            /\ smart_contracts'[i].doctor_wallet =
                 smart_contracts[i].doctor_wallet
     /\ Len(smart_contracts') >= Len(smart_contracts)
     /\ \A p \in PatientIds, d \in DoctorIds :
          GrantIds(smart_contracts, p, d, "active") = {} =>
            GrantIds(smart_contracts', p, d, "active")
              \cap DOMAIN smart_contracts = {}]_vars

\* the pair was revoked and a request left pending was approved afterwards:
\* the revoked grant is still there and the access comes from a new grant
C12_Witness ==
  /\ resp.op = "respond"
  /\ resp.status = 200
  /\ Len(smart_contracts) = 2
  /\ GrantIds(smart_contracts, 1, 1, "revoked") = {1}
  /\ GrantIds(smart_contracts, 1, 1, "active") = {2}
  /\ getApprovedFields(pw(1), dw(1)) # <<>>

\* C13: after respond(deny) the request is denied and the grant of the pair,
\* its status and its approved fields, is as before.
C13_DenyLeavesGrant ==
  [][\A p \in patients, id \in NotificationIds :
       (Respond(p, id, "deny") /\ resp'.status = 200) =>
         /\ \E n \in notifications' : n.id = id /\ n.status = "denied"
         /\ \A n \in notifications' : n.id = id => n.status = "denied"
         /\ smart_contracts' = smart_contracts
         /\ contracts' = contracts]_vars

\* a request was denied while the grant of the pair holds the fields of an
\* earlier approved request
C13_Witness ==
  /\ resp.op = "respond"
  /\ resp.data = Str("deny")
  /\ RequestsOf(notifications, 1, 1, "denied") # {}
  /\ RequestsOf(notifications, 1, 1, "approved") # {}
  /\ getApprovedFields(pw(1), dw(1)) =
       <<"vitals.heartRate", "patientInfo.bloodType">>

AlreadyConnected == "Connection already exists with this doctor"

\* C14: connect-doctor of (p, d) fails with the already-connected error and
\* changes nothing when the pair has an active grant; otherwise it inserts
\* one active grant of the pair with no approved fields.
C14_ConnectOnceWhileActive ==
  [][\A p \in patients, d \in doctors :
       ConnectDoctor(p, d) =>
         IF GrantIds(smart_contracts, p, d, "active") # {}
           THEN /\ resp' = createErrorResponse("connect-doctor", 409,
                                               AlreadyConnected)
                /\ smart_contracts' = smart_contracts
                /\ contracts' = contracts
                /\ notifications' = notifications
           ELSE /\ resp'.status = 200
                /\ Len(smart_contracts') = Len(smart_contracts) + 1
                /\ SubSeq(smart_contracts', 1, Len(smart_contracts)) =
                     smart_contracts
                /\ LET new == smart_contracts'[Len(smart_contracts')]
                   IN  /\ new.patient_wallet = pw(p)
                       /\ new.doctor_wallet = dw(d)
                       /\ new.status = "active"
                       /\ parseApprovedFields(new.approved_fields) = <<>>
                /\ notifications' = notifications]_vars

\* a connect-doctor was refused because the pair is connected
C14_Witness ==
  /\ resp.op = "connect-doctor"
  /\ resp.error = AlreadyConnected
  /\ Cardinality(GrantIds(smart_contracts, 1, 1, "active")) = 1
  /\ Len(smart_contracts) = 1

\* C15 as stated, read for the field lists that pass validation and a
\* patient with a record: when the pair has no active grant, request-access
\* fails with the no-connection error.
C15_NoGrantMeansNoConnection ==
  \A p \in patients, d \in doctors, F \in ValidFieldsInputs :
    (GrantIds(smart_contracts, p, d, "active") = {}
       /\ medical_record[p] # NULL) =>
      RequestAccessError(notifications, smart_contracts, d, p, F) = NoConnection

\* C15, amended: request-access creates a pending request only if the pair
\* has an active grant at that moment; when it has none the request fails
\* and creates nothing, with the no-connection error when the field list is
\* non-empty and within the catalog, the patient has a record and no pending
\* request of the pair exists, and with the error of the earlier failing
\* check otherwise.
C15_RequestNeedsActiveGrant ==
  /\ [](\A p \in patients, d \in doctors, F \in RequestedFieldsInputs :
         GrantIds(smart_contracts, p, d, "active") = {} =>
           LET error == RequestAccessError(notifications, smart_contracts,
                                           d, p, F)
           IN  /\ error # ""
               /\ error = NoConnection <=>
                    /\ F # <<>>
                    /\ Range(F) \subseteq getAvailableMedicalFields
                    /\ medical_record[p] # NULL
                    /\ RequestsOf(notifications, p, d, "pending") = {})
  /\ [][\A p \in patients, d \in doctors, F \in RequestedFieldsInputs :
          RequestAccess(d, p, F) =>
            IF GrantIds(smart_contracts, p, d, "active") = {}
              THEN /\ resp'.status # 200
                   /\ notifications' = notifications
                   /\ notification_seq' = notification_seq
              ELSE resp'.status = 200 =>
                     notifications' \ notifications =
                       {NotificationRow(notification_seq', d, p, F)}]_vars

\* a request for access was refused for want of a connection, the pair never
\* having had a grant
C15_Witness ==
  /\ resp.op = "request-access"
  /\ resp.error = NoConnection
  /\ smart_contracts = <<>>
  /\ notifications = {}

DuplicateRequest == "A request is already pending for this patient"
EmptyFieldSet == "Requested fields must be a non-empty array"
UnknownField == "Invalid medical fields"

\* field lists equal to, overlapping and disjoint from the requested ones,
\* and the empty and the invalid one
FieldLists ==
  RequestedFieldsInputs \cup TwoFieldsInputs \cup {<<"vitals.heartRate">>}

\* C16 as stated: while a request of d on p is pending, every further
\* request-access of d on p fails with the already-pending error, whatever
\* its field list.
C16_AlwaysDuplicateRequest ==
  \A p \in patients, d \in doctors, F2 \in FieldLists :
    RequestsOf(notifications, p, d, "pending") # {} =>
      RequestAccessError(notifications, smart_contracts, d, p, F2) =
        DuplicateRequest

\* C16, amended: while a request of d on p is pending, every further
\* request-access of d on p with a non-empty field list of catalog paths,
\* equal to, overlapping or disjoint from the pending one, fails with the
\* already-pending error; an empty list fails with the empty-list error and
\* a list with an unknown path with the invalid-fields error; the pending
\* request is unchanged.
C16_PendingBlocksRequests ==
  /\ [](\A p \in patients, d \in doctors, F2 \in FieldLists :
         RequestsOf(notifications, p, d, "pending") # {} =>
           RequestAccessError(notifications, smart_contracts, d, p, F2) =
             IF F2 = <<>> THEN EmptyFieldSet
             ELSE IF ~(Range(F2) \subseteq getAvailableMedicalFields)
               THEN UnknownField
             ELSE DuplicateRequest)
  /\ [][\A p \in patients, d \in doctors, F2 \in RequestedFieldsInputs :
          (RequestsOf(notifications, p, d, "pending") # {}
             /\ RequestAccess(d, p, F2))
            => /\ resp'.status # 200
               /\ notifications' = notifications
               /\ notification_seq' = notification_seq]_vars

\* a second request of the pair was refused while the first is pending
C16_Witness ==
  /\ resp.op = "request-access"
  /\ resp.error = DuplicateRequest
  /\ Cardinality(RequestsOf(notifications, 1, 1, "pending")) = 1
  /\ GrantIds(smart_contracts, 1, 1, "active") # {}

\* C17: request-access fails with the empty-list error for an empty field
\* list and with the invalid-fields error for a list with a path outside the
\* catalog, creating no request and changing no grant; every stored request
\* has a non-empty list of catalog paths.
C17_OnlyValidRequestsStored ==
  /\ [](/\ \A n \in notifications :
             /\ JSONparse(n.requested_fields) # <<>>
             /\ Range(JSONparse(n.requested_fields))
                  \subseteq getAvailableMedicalFields
        /\ \A p \in PatientIds, d \in doctors, F \in FieldLists :
             LET error == RequestAccessError(notifications, smart_contracts,
                                             d, p, F)
             IN  /\ F = <<>> => error = EmptyFieldSet
                 /\ (F # <<>> /\ ~(Range(F) \subseteq getAvailableMedicalFields))
                      => error = UnknownField)
  /\ [][\A p \in PatientIds, d \in doctors, F \in RequestedFieldsInputs :
          (RequestAccess(d, p, F)
             /\ (F = <<>> \/ ~(Range(F) \subseteq getAvailableMedicalFields)))
            => /\ resp'.status = 400
               /\ notifications' = notifications
               /\ notification_seq' = notification_seq
               /\ smart_contracts' = smart_contracts
               /\ contracts' = contracts]_vars

\* a request with a path outside the catalog was refused although the pair
\* is connected and has no pending request
C17_Witness ==
  /\ resp.op = "request-access"
  /\ resp.error = UnknownField
  /\ GrantIds(smart_contracts, 1, 1, "active") # {}
  /\ RequestsOf(notifications, 1, 1, "pending") = {}

\* C18: cancel of request id by doctor d deletes the request only when it
\* exists, is of d and is pending; an unknown id fails with not-found, a
\* request of another doctor with access-denied, a resolved one with
\* only-pending, and a failed cancel changes no request and no grant. Every
\* cancel answers with op "cancel", so the steps looked at are all of them.
C18_CancelOnlyOwnPending ==
  [][resp'.op = "cancel" =>
     \A d \in doctors, id \in NotificationIds :
       CancelRequest(d, id) =>
         /\ smart_contracts' = smart_contracts
         /\ contracts' = contracts
         /\ IF \A n \in notifications : n.id # id
              THEN /\ resp' = createErrorResponse("cancel", 404,
                                                  "Request not found")
                   /\ notifications' = notifications
              ELSE \A n \in notifications :
                     n.id = id =>
                       IF n.doctor_id # d
                         THEN /\ resp' = createErrorResponse("cancel", 403,
                                                             "Access denied")
                              /\ notifications' = notifications
                       ELSE IF n.status # "pending"
                         THEN /\ resp' = createErrorResponse("cancel", 400,
                                           "Can only cancel pending requests")
                              /\ notifications' = notifications
                       ELSE /\ resp'.status = 200
                            /\ notifications' = notifications \ {n}]_vars

\* doctor 2 was refused the cancel of a pending request of doctor 1, which
\* is still there
C18_Witness ==
  /\ resp.op = "cancel"
  /\ resp.error = "Access denied"
  /\ notifications # {}
  /\ \A n \in notifications : n.doctor_id = 1 /\ n.status = "pending"


\* C19: a respond by a patient who is not the one named in the request fails
\* with access-denied, and a respond to an unknown id with not-found; either
\* way no request changes its status and no grant changes.
C19_OnlyHolderResolves ==
  [][\A p \in patients, id \in NotificationIds, action \in ActionInputs :
       Respond(p, id, action) =>
         IF \A n \in notifications : n.id # id
           THEN /\ resp' = createErrorResponse("respond", 404,
                                               "Notification not found")
                /\ notifications' = notifications
                /\ smart_contracts' = smart_contracts
                /\ contracts' = contracts
           ELSE \A n \in notifications :
                  (n.id = id /\ n.patient_id # p) =>
                    /\ resp' = createErrorResponse("respond", 403,
                                                   "Access denied")
                    /\ notifications' = notifications
                    /\ smart_contracts' = smart_contracts
                    /\ contracts' = contracts]_vars

\* patient 2 was refused the respond to a request addressed to patient 1,
\* which is still pending
C19_Witness ==
  /\ resp.op = "respond"
  /\ resp.error = "Access denied"
  /\ \E n \in notifications : n.patient_id = 1 /\ n.status = "pending"


\* the error of POST /revoke-access/:doctorId when findByWallets finds no
\* active contract
NoActiveContract == "No active contract found"

C21_ApprovedFieldsOfActiveGrant ==
  \A p \in PatientIds, d \in DoctorIds :
    IF GrantIds(smart_contracts, p, d, "active") = {}
      THEN getApprovedFields(pw(p), dw(d)) = <<>>
      ELSE \A i \in GrantIds(smart_contracts, p, d, "active") :
             getApprovedFields(pw(p), dw(d)) =
               parseApprovedFields(smart_contracts[i].approved_fields)

\* pair (1, 1) has a revoked grant whose row still lists fields and, since,
\* an active grant with approved fields, which are the ones returned
C21_Witness ==
  /\ Len(smart_contracts) = 2
  /\ smart_contracts[1].status = "revoked"
  /\ parseApprovedFields(smart_contracts[1].approved_fields) # <<>>
  /\ GrantIds(smart_contracts, 1, 1, "active") = {2}
  /\ getApprovedFields(pw(1), dw(1)) # <<>>


\* C22 as stated: the projection of a record on a list of paths returns a
\* mapping whose values all lie at or under a path of the list, and at each
\* path of the list that has a value in the record the mapping holds that
\* value.
C22_ProjectionCorrect ==
  probe.op = "project" =>
    /\ probe.result # FailedToGetApprovedFields
    /\ \A leaf \in LeafPaths(probe.result) :
         \E i \in DOMAIN probe.approvedFields :
           IsPrefix(split[probe.approvedFields[i]], leaf)
    /\ \A i \in DOMAIN probe.approvedFields :
         getNestedProperty(probe.fullRecord, probe.approvedFields[i])
             # Undefined =>
           getNestedProperty(probe.result, probe.approvedFields[i]) =
             getNestedProperty(probe.fullRecord, probe.approvedFields[i])

\* C25 as stated: the read of a path returns the value stored at the path
\* when every segment before the last leads to a mapping that has the next
\* key, falsy values included, and absent in every other case.
C25_GetFollowsMappings ==
  probe.op = "get" =>
    probe.value = ValueAt(probe.fullRecord, split[probe.path])


\* the paths of a list that have a value in a record
PresentIn(fullRecord, approvedFields) ==
  SelectSeq(approvedFields,
            LAMBDA path : getNestedProperty(fullRecord, path) # Undefined)

Orderings(S) ==
  { [i \in DOMAIN S |-> S[f[i]]] :
      f \in { g \in [DOMAIN S -> DOMAIN S] :
                \A i, j \in DOMAIN S : i # j => g[i] # g[j] } }

\* C24 as stated: the projection of a record is the same on every ordering
\* of the list of paths, lists with a path and an extension of it included.
C24_OrderIndependent ==
  probe.op = "project" =>
    \A T \in Orderings(probe.approvedFields) :
      MidnightGetApprovedFields(probe.fullRecord, T) = probe.result

\* C26 as stated: after the projection the record is as it was, and no
\* assignment of the projection was made to an object of the record.
C26_SourceNeverWritten ==
  probe.op = "project" =>
    /\ probe.run.fullRecord = probe.fullRecord
    /\ ~probe.run.wrote

\* C26, amended: after the projection, ended or failed, the record is as it
\* was; an assignment is made to an object of the record only when the list
\* holds a path whose value in the record is a mapping or an array and,
\* after it, an extension of that path, and it stores the value the object
\* already has.
C26_SourceUnchanged ==
  probe.op = "project" =>
    /\ probe.run.fullRecord = probe.fullRecord
    /\ probe.run.wrote =>
         \E i, j \in DOMAIN probe.approvedFields :
           /\ i < j
           /\ IsPrefix(split[probe.approvedFields[i]],
                       split[probe.approvedFields[j]])
           /\ split[probe.approvedFields[i]] # split[probe.approvedFields[j]]
           /\ getNestedProperty(probe.fullRecord,
                                probe.approvedFields[i]).k \in {"obj", "list"}

\* the list held a path to a mapping and then an extension of it: the
\* second assignment went to the record's own mapping and the record is as
\* it was
C26_Witness ==
  /\ probe.op = "project"
  /\ probe.approvedFields = <<"vitals", "vitals.heartRate">>
  /\ probe.fullRecord = Obj("vitals" :> Obj("heartRate" :> Num(72)))
  /\ probe.run.wrote
  /\ probe.run.fullRecord = probe.fullRecord
  /\ probe.result = probe.fullRecord


\* C27 as stated: every row of smart_contracts whose contract object is in
\* the contract map agrees with it: the object is active exactly when the
\* row's status is active, and its approved fields are the row's.
C27_RowsAgreeWithObjects ==
  \A i \in DOMAIN smart_contracts :
    smart_contracts[i].contract_address \in DOMAIN contracts =>
      LET object == contracts[smart_contracts[i].contract_address]
      IN  /\ object.isActive = (smart_contracts[i].status = "active")
          /\ object.approvedFields =
               parseApprovedFields(smart_contracts[i].approved_fields)


\* C28 as stated: when the active grant of a pair has approved fields, some
\* request of the pair is approved and its requested fields are the
\* grant's approved fields.
C28_AccessHasApprovedRequest ==
  \A p \in patients, d \in doctors :
    \A i \in GrantIds(smart_contracts, p, d, "active") :
      parseApprovedFields(smart_contracts[i].approved_fields) # <<>> =>
        \E n \in RequestsOf(notifications, p, d, "approved") :
          JSONparse(n.requested_fields) =
            parseApprovedFields(smart_contracts[i].approved_fields)


\* C29: a revoke changes no request, so a request pending before it is
\* pending after it with the same requested fields; the approval of a
\* pending request of a revoked pair inserts a new active grant of the pair
\* with exactly the requested fields and leaves every other grant, the
\* revoked one included, as it was.
C29_RevokeKeepsRequests ==
  [][/\ \A p \in patients, d \in DoctorIds :
          RevokeAccess(p, d) => /\ notifications' = notifications
                                /\ notification_seq' = notification_seq
     /\ \A p \in patients, n \in notifications :
          (/\ n.patient_id = p
           /\ n.status = "pending"
           /\ RevokedPair(smart_contracts, p, n.doctor_id)
           /\ Respond(p, n.id, "approve"))
            => /\ Len(smart_contracts') = Len(smart_contracts) + 1
               /\ SubSeq(smart_contracts', 1, Len(smart_contracts))
                    = smart_contracts
               /\ LET grant == smart_contracts'[Len(smart_contracts')]
                  IN  /\ grant.patient_wallet = pw(p)
                      /\ grant.doctor_wallet = dw(n.doctor_id)
                      /\ grant.status = "active"
                      /\ grant.approved_fields = n.requested_fields
               /\ notifications' =
                    (notifications \ {n})
                      \cup {[n EXCEPT !.status = "approved"]}]_vars

\* the only request ever made was approved after the revoke of the grant it
\* was made under: that grant is revoked with no fields, and a second grant
\* of the pair is active with the requested fields
C29_Witness ==
  /\ notification_seq = 1
  /\ Len(smart_contracts) = 2
  /\ smart_contracts[1].status = "revoked"
  /\ parseApprovedFields(smart_contracts[1].approved_fields) = <<>>
  /\ smart_contracts[2].status = "active"
  /\ \E n \in RequestsOf(notifications, 1, 1, "approved") :
       smart_contracts[2].approved_fields = n.requested_fields
  /\ parseApprovedFields(smart_contracts[2].approved_fields) # <<>>


\* C30 as stated: of a cancel and a respond(approve) interleaved on the same
\* pending request at most one takes effect: the delete of a cancel removes
\* no request that is approved, and the grant write of an approve is never
\* made for a request that has been deleted.
C30_CancelOrApprove ==
  [][\A proc \in Procs :
       /\ \A fault \in BOOLEAN :
            CancelDelete(proc, fault) =>
              \A n \in notifications :
                n.status = "approved" => n \in notifications'
       /\ RespondGrant(proc, FALSE) =>
            \E n \in notifications : n.id = inflight[proc].notification]_vars

=============================================================================
